---- MODULE Spec2Model ----
(***************************************************************************)
(* The generation job pipeline of the media generation service: one job    *)
(* row in the job store, the API requests of JobService (create, cancel,   *)
(* retry), the Celery queue with its automatic retry, and the workers that *)
(* run generate_media_task / _generate_media_async against the row.        *)
(* ReplicateClient's calls are modelled apart, one HTTP attempt per step.  *)
(*                                                                         *)
(* Every database round trip (get_by_id, repository.update) is one step.   *)
(* repository.update is session.merge + commit + refresh: the UPDATE       *)
(* carries the columns whose value differs from the one the session last   *)
(* loaded, and the refresh reloads the whole row into the caller's object. *)
(*                                                                         *)
(* Units.  Progress is counted in 1/One, One = 10 * MAX_WAIT_TIME, and the  *)
(* clock in ticks of 1/7 second, so that the interpolation                 *)
(* 0.2 + (elapsed / max_wait_time) * 0.7 is exactly 2*One/10 + ticks.       *)
(***************************************************************************)
EXTENDS Integers, Sequences, FiniteSets, TLC

VARIABLES
    exists,      \* TRUE once JobRepository.create has committed the row
    store,       \* the row of the job in the jobs table
    queue,       \* messages of generate_media_task waiting in the broker
    revoked,     \* task ids passed to celery_app.control.revoke
    nextTask,    \* number of task ids handed out by .delay()
    predictions, \* number of predictions the provider has accepted
    redelivered, \* number of messages the broker has delivered a second time
    reported,    \* the last terminal status get_prediction returned, if any
    api,         \* the API request being served by JobService
    wk,          \* per worker: position in the task and its session's Job object
    net          \* a call of ReplicateClient and the HTTP attempts it has made

vars == <<exists, store, queue, revoked, nextTask, predictions, redelivered, reported,
          api, wk, net>>

----------------------------------------------------------------------------
(* Program constants *)

MAX_RETRY_ATTEMPTS == 3
CELERY_MAX_RETRIES == 3
MAX_WAIT_TIME == 300
POLL_SLEEP == 2
\* the ranges of _validate_generation_parameters and the prompt's min_length
MIN_DIMENSION == 64
MAX_DIMENSION == 2048
MIN_STEPS == 1
MAX_STEPS == 150
MIN_GUIDANCE == 0
MAX_GUIDANCE == 20
MIN_PROMPT_LENGTH == 1

(* Bounds of the model *)

\* task ids .delay() hands out (create_generation_job and retry_job)
MaxTasks == 2
\* messages the broker delivers again while a worker still holds them
MaxRedeliveries == 1

\* characters of the longest prompt a create request carries
MaxPromptLen == 2

\* HTTP requests of one client call whose outcome is drawn
MaxScriptLen == 5

\* parts of the longest output URL a prediction reports
MaxLocatorLen == 3

\* the worker processes of the pool
Workers == {"w1", "w2"}

One == 10 * MAX_WAIT_TIME
P(tenths) == tenths * (One \div 10)
P95 == (95 * One) \div 100
MaxWaitTicks == 7 * MAX_WAIT_TIME
SleepTicks == 7 * POLL_SLEEP
\* how long one get_prediction call may take, in ticks
PollDurations == {MaxWaitTicks \div 2, MaxWaitTicks}

----------------------------------------------------------------------------
(* JobStatus and the Job row *)

PENDING == "pending"
PROCESSING == "processing"
COMPLETED == "completed"
FAILED == "failed"
CANCELLED == "cancelled"
JobStatus == {PENDING, PROCESSING, COMPLETED, FAILED, CANCELLED}

None == "None"
NoMsg == <<>>
\* datetime.utcnow(): a value that differs from the one it replaces
utcnow(old) == IF old = "t1" THEN "t2" ELSE "t1"

\* file_size None: a value no len() returns
NoSize == 0 - 1

\* a dict without keys
NoParameters == [k \in {} |-> 0]

\* Job(...) with the column defaults, as create_generation_job builds it
NewJob ==
    [ id |-> "uuid4", prompt |-> <<>>, parameters |-> NoParameters,
      status |-> PENDING, progress |-> 0,
      result_url |-> None, result_path |-> None, file_size |-> NoSize,
      file_type |-> None,
      error_message |-> NoMsg, retry_count |-> 0, max_retries |-> MAX_RETRY_ATTEMPTS,
      replicate_prediction_id |-> 0, celery_task_id |-> 0,
      started_at |-> None, completed_at |-> None ]

Columns == DOMAIN NewJob

\* is_terminal_status that leaves FAILED out
is_terminal_status_two(job) == job.status \in {COMPLETED, CANCELLED}

is_terminal_status(job) == job.status \in {COMPLETED, FAILED, CANCELLED}

can_retry(job) == job.status = FAILED /\ job.retry_count < job.max_retries

mark_processing(job) == [job EXCEPT !.status = PROCESSING, !.started_at = utcnow(@)]

\* mark_completed with the progress written as a percentage
mark_completed_percent(job, url, path, size, type) ==
    [job EXCEPT !.status = COMPLETED, !.result_url = url, !.result_path = path,
                !.file_size = size, !.file_type = type, !.progress = 100 * One,
                !.completed_at = utcnow(@)]

mark_completed(job, url, path, size, type) ==
    [job EXCEPT !.status = COMPLETED, !.result_url = url, !.result_path = path,
                !.file_size = size, !.file_type = type, !.progress = One,
                !.completed_at = utcnow(@)]

\* mark_failed that leaves error_message as it is
mark_failed_silent(job, msg, increment_retry) ==
    [job EXCEPT !.status = FAILED,
                !.retry_count = IF increment_retry THEN @ + 1 ELSE @]

mark_failed(job, msg, increment_retry) ==
    [job EXCEPT !.status = FAILED, !.error_message = msg,
                !.retry_count = IF increment_retry THEN @ + 1 ELSE @]

\* mark_cancelled writing the status of mark_failed
mark_cancelled_as_failed(job) == [job EXCEPT !.status = FAILED]

mark_cancelled(job) == [job EXCEPT !.status = CANCELLED]

\* JobService.update_job_progress: the range check, then the assignment
update_job_progress(job, progress, status) ==
    IF ~(0 <= progress /\ progress <= One)
    THEN [ok |-> FALSE, field |-> "progress", job |-> job]
    ELSE [ok |-> TRUE, field |-> None,
          job |-> [job EXCEPT !.progress = progress,
                              !.status = IF status # None THEN status ELSE @]]

\* an update that writes every column of the session's object
RowAfterUpdateWhole(row, loaded, job) == job

\* JobRepository.update: the row after the UPDATE of the changed columns.
\* loaded is the object as the session last read it, job the object now.
RowAfterUpdate(row, loaded, job) ==
    [c \in Columns |-> IF job[c] # loaded[c] THEN job[c] ELSE row[c]]

----------------------------------------------------------------------------
(* Messages: str(exception) as a sequence of parts *)

ProviderDetail == "NSFW content detected"

NotPendingMsg(status) == <<"Job is not in pending status", status>>
PredictionFailedMsg(detail) == <<"Prediction failed", detail>>
TimeoutMsg == <<"Prediction timed out">>
ApiErrorMsg == <<"Replicate request failed">>
NoOutputMsg == <<"No output generated">>
StorageErrorMsg == <<"Storage operation failed">>
OtherErrorMsg == <<"Unexpected error">>
\* JobProcessingException(f"Job processing failed: {str(e)}")
ProcessingFailedMsg(msg) == <<"Job processing failed">> \o msg

Contains(msg, part) == \E i \in 1..Len(msg) : msg[i] = part

----------------------------------------------------------------------------
(* Create requests: GenerationRequest and its validation *)

\* A prompt is a sequence of characters.
Chars == {" ", "a"}
Prompts == UNION {[1..n -> Chars] : n \in 0..MaxPromptLen}

RECURSIVE lstrip(_)
lstrip(v) == IF v # <<>> /\ Head(v) = " " THEN lstrip(Tail(v)) ELSE v

RECURSIVE rstrip(_)
rstrip(v) ==
    IF v # <<>> /\ v[Len(v)] = " " THEN rstrip(SubSeq(v, 1, Len(v) - 1)) ELSE v

\* a strip() that returns its argument
strip_nothing(v) == v

\* str.strip()
strip(v) == rstrip(lstrip(v))

\* A parameter value: an int, a float v or v + 0.5, float('nan'), or a str.
IntValue(n) == [kind |-> "int", v |-> n, half |-> FALSE]
FloatValue(n, half) == [kind |-> "float", v |-> n, half |-> half]
NaN == [kind |-> "nan", v |-> 0, half |-> FALSE]
StrValue == [kind |-> "str", v |-> 0, half |-> FALSE]

isinstance_int(x) == x.kind = "int"
isinstance_number(x) == x.kind \in {"int", "float", "nan"}
\* x < n and x > n for a number x and an int n; every comparison with nan is False
lt(x, n) == x.kind # "nan" /\ x.v < n
gt(x, n) == x.kind # "nan" /\ (IF x.half THEN x.v >= n ELSE x.v > n)

ParamKeys == {"width", "height", "num_inference_steps", "guidance_scale"}

\* the model of a request: a name as a sequence of parts, <<>> when absent
ModelNames == {<<>>, <<"owner", "/", "model">>, <<"model">>}

\* GenerationRequest, schema validation: the field that fails, if any
SchemaError(raw) ==
    IF Len(raw.prompt) < MIN_PROMPT_LENGTH \/ strip(raw.prompt) = <<>>
    THEN "prompt"
    ELSE IF \/ \E k \in DOMAIN raw.parameters \ {"guidance_scale"} :
                  ~isinstance_int(raw.parameters[k])
            \/ /\ "guidance_scale" \in DOMAIN raw.parameters
               /\ ~isinstance_number(raw.parameters["guidance_scale"])
         THEN "parameters"
         ELSE None

\* the GenerationRequest the endpoint hands to the service: validate_prompt
\* returns the stripped prompt
Parsed(raw) == [raw EXCEPT !.prompt = strip(@)]

OutOfRange(x, low, high) == lt(x, low) \/ gt(x, high)

\* _validate_generation_parameters: the field of the ValidationException, if any
validate_generation_parameters(parameters) ==
    LET has(k) == k \in DOMAIN parameters
        bad_int(k, low, high) ==
            has(k) /\ (~isinstance_int(parameters[k])
                         \/ OutOfRange(parameters[k], low, high))
    IN IF bad_int("width", MIN_DIMENSION, MAX_DIMENSION) THEN "parameters.width"
       ELSE IF bad_int("height", MIN_DIMENSION, MAX_DIMENSION) THEN "parameters.height"
       ELSE IF bad_int("num_inference_steps", MIN_STEPS, MAX_STEPS)
            THEN "parameters.num_inference_steps"
       ELSE IF /\ has("guidance_scale")
               /\ \/ ~isinstance_number(parameters["guidance_scale"])
                  \/ OutOfRange(parameters["guidance_scale"], MIN_GUIDANCE, MAX_GUIDANCE)
            THEN "parameters.guidance_scale"
       ELSE None

\* _validate_generation_request: the field of the ValidationException, if any
validate_generation_request(request) ==
    IF strip(request.prompt) = <<>> THEN "prompt"
    ELSE IF request.model # <<>> /\ ~Contains(request.model, "/") THEN "model"
    ELSE IF request.parameters # NoParameters
         THEN validate_generation_parameters(request.parameters)
    ELSE None

\* the Job create_generation_job builds from an accepted request
JobFor(request) ==
    [NewJob EXCEPT !.prompt = request.prompt, !.parameters = request.parameters]

DefaultModel == <<"owner", "/", "model">>

\* the requests that have arrived: none
NoRequest == <<>>

\* the values a request may carry for a parameter: the bounds of its range,
\* their neighbours, non-integers, nan, a str
DimensionValues ==
    { IntValue(MIN_DIMENSION - 1), IntValue(MIN_DIMENSION), IntValue(MAX_DIMENSION),
      IntValue(MAX_DIMENSION + 1), FloatValue(MIN_DIMENSION, TRUE) }
StepValues ==
    { IntValue(MIN_STEPS - 1), IntValue(MIN_STEPS), IntValue(MAX_STEPS),
      IntValue(MAX_STEPS + 1) }
GuidanceValues ==
    { IntValue(MIN_GUIDANCE - 1), IntValue(MIN_GUIDANCE), IntValue(MAX_GUIDANCE),
      IntValue(MAX_GUIDANCE + 1), FloatValue(MIN_GUIDANCE - 1, TRUE),
      FloatValue(MIN_GUIDANCE, TRUE), FloatValue(MAX_GUIDANCE, TRUE), NaN, StrValue }
ParamValues(k) ==
    CASE k = "num_inference_steps" -> StepValues
      [] k = "guidance_scale" -> GuidanceValues
      [] OTHER -> DimensionValues

AllParameters ==
    UNION { { f \in [K -> DimensionValues \cup StepValues \cup GuidanceValues] :
                \A k \in K : f[k] \in ParamValues(k) } : K \in SUBSET ParamKeys }

\* every create request over the prompts, models and parameters above
AllRequests == [prompt : Prompts, model : ModelNames, parameters : AllParameters]

\* the create requests clients send: one that is accepted, one with a blank
\* prompt, one with a width below the range
Requests ==
    { [prompt |-> <<"a", " ">>, model |-> DefaultModel,
       parameters |-> [k \in {"width"} |-> IntValue(MIN_DIMENSION)]],
      [prompt |-> <<" ">>, model |-> DefaultModel, parameters |-> NoParameters],
      [prompt |-> <<"a">>, model |-> DefaultModel,
       parameters |-> [k \in {"width"} |-> IntValue(MIN_DIMENSION - 1)]] }

----------------------------------------------------------------------------
(* The artifact: its content type and its place in the storage *)

\* An output URL is a sequence of parts: separators, names and extensions in
\* the spellings a provider may use.
LocatorParts ==
    {".", "?", "out", "png", "JPG", "jpeg", "gif", "webp", "MP4", "avi"}
Locators == UNION {[1..n -> LocatorParts] : n \in 1..MaxLocatorLen}

\* the output URL of the mock prediction: a path and a query, no extension
DefaultLocator == <<"out", "?", "out">>

\* str.lower that changes nothing
lower_nothing(part) == part

\* str.lower, part by part
lower(part) ==
    CASE part = "PNG" -> "png"
      [] part = "JPG" -> "jpg"
      [] part = "MP4" -> "mp4"
      [] OTHER -> part

endswith(url, suffix) ==
    /\ Len(url) >= Len(suffix)
    /\ SubSeq(url, Len(url) - Len(suffix) + 1, Len(url)) = suffix

determine_content_type(url) ==
    LET url_lower == [i \in DOMAIN url |-> lower(url[i])]
    IN CASE endswith(url_lower, <<".", "png">>) -> "image/png"
         [] endswith(url_lower, <<".", "jpg">>) \/ endswith(url_lower, <<".", "jpeg">>)
              -> "image/jpeg"
         [] endswith(url_lower, <<".", "gif">>) -> "image/gif"
         [] endswith(url_lower, <<".", "webp">>) -> "image/webp"
         [] endswith(url_lower, <<".", "mp4">>) -> "video/mp4"
         [] OTHER -> "image/png"

get_extension_from_content_type(content_type) ==
    CASE content_type = "image/png" -> ".png"
      [] content_type = "image/jpeg" -> ".jpg"
      [] content_type = "image/gif" -> ".gif"
      [] content_type = "image/webp" -> ".webp"
      [] content_type = "video/mp4" -> ".mp4"
      [] content_type = "video/avi" -> ".avi"
      [] OTHER -> ".png"

\* f"{job_id}{file_extension}" for the id of the job
generate_file_path(job_id, file_extension) ==
    CASE file_extension = ".png" -> "uuid4.png"
      [] file_extension = ".jpg" -> "uuid4.jpg"
      [] file_extension = ".gif" -> "uuid4.gif"
      [] file_extension = ".webp" -> "uuid4.webp"
      [] file_extension = ".mp4" -> "uuid4.mp4"
      [] OTHER -> "uuid4.avi"

\* the public URL _upload_to_minio builds for a file path
public_url(file_path) ==
    CASE file_path = "uuid4.png" -> "http://localhost:9000/media-files/uuid4.png"
      [] file_path = "uuid4.jpg" -> "http://localhost:9000/media-files/uuid4.jpg"
      [] file_path = "uuid4.gif" -> "http://localhost:9000/media-files/uuid4.gif"
      [] file_path = "uuid4.webp" -> "http://localhost:9000/media-files/uuid4.webp"
      [] file_path = "uuid4.mp4" -> "http://localhost:9000/media-files/uuid4.mp4"
      [] OTHER -> "http://localhost:9000/media-files/uuid4.avi"

\* upload_file: (storage_path, public_url)
upload_file(job_id, content_type) ==
    LET file_path == generate_file_path(job_id, get_extension_from_content_type(content_type))
    IN [storage_path |-> file_path, public_url |-> public_url(file_path)]

----------------------------------------------------------------------------
(* ReplicateClient: the HTTP attempts behind one call *)

\* stop_after_attempt of _real_create_prediction and of _real_get_prediction
CREATE_ATTEMPTS == 3
GET_ATTEMPTS == 5

\* what one HTTP request can end in: a 2xx response, an httpx.RequestError
\* (connection, timeout), or raise_for_status raising on a 4xx or a 5xx
Outcomes == {"ok", "request_error", "status_4xx", "status_5xx"}

\* the outcomes the provider would give to the successive requests of a call
Scripts == [1..MaxScriptLen -> Outcomes]

ClientCalls == {"create_prediction", "get_prediction", "cancel_prediction"}

\* no call: the client is not in use
NoCall ==
    [call |-> None, mock_mode |-> FALSE, script |-> <<>>, attempts |-> 0,
     result |-> "none"]

\* a call that has started and has sent no request yet
Calls ==
    [call : ClientCalls, mock_mode : BOOLEAN, script : Scripts, attempts : {0},
     result : {"none"}]

\* the exception the try block of a _real_* method leaves with: both except
\* clauses raise ReplicateAPIException
RealCallRaises(outcome) ==
    IF outcome = "ok" THEN None ELSE "ReplicateAPIException"

\* retry=retry_if_exception_type(httpx.RequestError)
retry_if_exception_type(exc) == exc = "RequestError"

\* one attempt of a method under @retry: tenacity calls the method again when
\* the predicate accepts its exception and attempts are left, raises
\* RetryError when none is left, and lets any other exception through
Attempt(stop_after_attempt) ==
    LET n == net.attempts + 1
        exc == RealCallRaises(net.script[n])
        result == IF exc = None THEN "returned"
                  ELSE IF ~retry_if_exception_type(exc) THEN exc
                  ELSE IF n >= stop_after_attempt THEN "RetryError"
                  ELSE "none"
    IN [net EXCEPT !.attempts = n, !.result = result]

\* the mock implementations answer without a request
MockCall == [net EXCEPT !.result = "returned"]

Others == <<exists, store, queue, revoked, nextTask, predictions, redelivered,
            reported, api, wk>>

\* create_prediction: the mock, or _real_create_prediction under @retry
ClientCreatePrediction ==
    /\ net.call = "create_prediction"
    /\ net.result = "none"
    /\ net' = IF net.mock_mode THEN MockCall ELSE Attempt(CREATE_ATTEMPTS)
    /\ UNCHANGED Others

\* get_prediction: the mock, or _real_get_prediction under @retry
ClientGetPrediction ==
    /\ net.call = "get_prediction"
    /\ net.result = "none"
    /\ net' = IF net.mock_mode THEN MockCall ELSE Attempt(GET_ATTEMPTS)
    /\ UNCHANGED Others

\* cancel_prediction: one request, no @retry
ClientCancelPrediction ==
    /\ net.call = "cancel_prediction"
    /\ net.result = "none"
    /\ net' = IF net.mock_mode THEN MockCall
              ELSE LET exc == RealCallRaises(net.script[1])
                   IN [net EXCEPT !.attempts = 1,
                                  !.result = IF exc = None THEN "returned" ELSE exc]
    /\ UNCHANGED Others

----------------------------------------------------------------------------
(* Initial state *)

\* no request in progress; error is the field of the ValidationException the
\* last request was answered with, if it was rejected; request is a create
\* request that has arrived and is not handled yet
IdleApi ==
    [pc |-> "idle", job |-> NewJob, task |-> 0, error |-> None, request |-> NoRequest]

Rejection(field) == [IdleApi EXCEPT !.error = field]

IdleWorker ==
    [pc |-> "idle", task |-> 0, retries |-> 0, job |-> NewJob, before |-> NewJob,
     err |-> NoMsg, elapsed |-> 0, last_progress_update |-> 0,
     media_len |-> 0, output_url |-> <<>>, claimed |-> FALSE, dispatched |-> FALSE,
     wrote |-> 0]

Init ==
    /\ exists = FALSE
    /\ store = NewJob
    /\ queue = {}
    /\ revoked = {}
    /\ nextTask = 0
    /\ predictions = 0
    /\ redelivered = 0
    /\ reported = None
    /\ api = IdleApi
    /\ wk = [w \in Workers |-> IdleWorker]
    /\ net = NoCall

----------------------------------------------------------------------------
(* JobService: create_generation_job, cancel_job, retry_job *)

\* the field a create request is rejected on, by the schema or by the service
CreateError(raw) ==
    IF SchemaError(raw) # None THEN SchemaError(raw)
    ELSE validate_generation_request(Parsed(raw))

\* POST /generate with one of the given requests, in a service whose
\* settings.MAX_RETRY_ATTEMPTS is the given one: validation, then
\* repository.create(job) and generate_media_task.delay
CreateWith(requests, max_retry_attempts) ==
    /\ api.pc = "idle" /\ ~exists
    /\ nextTask < MaxTasks
    /\ \E raw \in requests :
         IF CreateError(raw) # None
         THEN /\ api' = Rejection(CreateError(raw))
              /\ UNCHANGED <<net, exists, store, nextTask, queue>>
         ELSE /\ exists' = TRUE
              /\ store' = [JobFor(Parsed(raw)) EXCEPT !.max_retries = max_retry_attempts]
              /\ nextTask' = nextTask + 1
              /\ queue' = queue \cup {[task |-> nextTask + 1, retries |-> 0]}
              /\ api' = [IdleApi EXCEPT !.pc = "create_task_id", !.job = store',
                                        !.task = nextTask + 1]
    /\ UNCHANGED <<net, revoked, predictions, redelivered, reported, wk>>

\* the service with the default settings
Create(requests) == CreateWith(requests, MAX_RETRY_ATTEMPTS)

CreateJob == Create(Requests)

\* the service started with MAX_RETRY_ATTEMPTS=0 in its environment
CreateJobNoRetries == CreateWith(Requests, 0)

\* POST /generate with the request that has arrived
CreateReceived == api.request # NoRequest /\ Create({Head(api.request)})

\* job.celery_task_id = task.id; repository.update(job)
SetTaskId ==
    /\ api.pc \in {"create_task_id", "retry_task_id"}
    /\ LET job == [api.job EXCEPT !.celery_task_id = api.task]
       IN store' = RowAfterUpdate(store, api.job, job)
    /\ api' = IdleApi
    /\ UNCHANGED <<net, exists, queue, revoked, nextTask, predictions, redelivered, reported, wk>>

\* cancel_job: get_by_id and the is_terminal_status check
CancelLoad ==
    /\ api.pc = "idle" /\ exists
    /\ api' = IF is_terminal_status(store)
              THEN Rejection("status")
              ELSE [IdleApi EXCEPT !.pc = "cancel", !.job = store]
    /\ UNCHANGED <<net, exists, store, queue, revoked, nextTask, predictions, redelivered, reported, wk>>

\* cancel_job: revoke the Celery task, mark_cancelled, repository.update
CancelCommit ==
    /\ api.pc = "cancel"
    /\ revoked' = IF api.job.celery_task_id # 0
                  THEN revoked \cup {api.job.celery_task_id} ELSE revoked
    /\ store' = RowAfterUpdate(store, api.job, mark_cancelled(api.job))
    /\ api' = IdleApi
    /\ UNCHANGED <<net, exists, queue, nextTask, predictions, redelivered, reported, wk>>

\* retry_job: get_by_id and the can_retry check
RetryLoad ==
    /\ api.pc = "idle" /\ exists
    /\ can_retry(store) => nextTask < MaxTasks
    /\ api' = IF can_retry(store)
              THEN [IdleApi EXCEPT !.pc = "retry_reset", !.job = store]
              ELSE Rejection("retry")
    /\ UNCHANGED <<net, exists, store, queue, revoked, nextTask, predictions, redelivered, reported, wk>>

\* retry_job that starts over from a new Job with the column defaults
ResetForRetryFresh(job) ==
    [NewJob EXCEPT !.celery_task_id = job.celery_task_id]

\* the fields retry_job resets before it saves the job
ResetForRetry(job) ==
    [job EXCEPT !.status = PENDING, !.error_message = NoMsg, !.progress = 0,
                !.started_at = None, !.completed_at = None]

\* retry_job: reset the job, repository.update, generate_media_task.delay
RetryReset ==
    /\ api.pc = "retry_reset"
    /\ store' = RowAfterUpdate(store, api.job, ResetForRetry(api.job))
    /\ nextTask' = nextTask + 1
    /\ queue' = queue \cup {[task |-> nextTask + 1, retries |-> 0]}
    /\ api' = [IdleApi EXCEPT !.pc = "retry_task_id", !.job = store',
                               !.task = nextTask + 1]
    /\ UNCHANGED <<net, exists, revoked, predictions, redelivered, reported, wk>>

----------------------------------------------------------------------------
(* The Celery worker: delivery, revocation *)

\* idle workers are interchangeable: the first idle one takes the message
Before(v, w) == v = "w1" /\ w = "w2"

\* a worker takes a message; a revoked task id is discarded on receipt
Pickup(w) ==
    /\ wk[w].pc = "idle"
    /\ \A v \in Workers : Before(v, w) => wk[v].pc # "idle"
    /\ \E m \in queue :
         /\ queue' = queue \ {m}
         /\ wk' = IF m.task \in revoked THEN wk
                  ELSE [wk EXCEPT ![w] = [IdleWorker EXCEPT !.pc = "load",
                                            !.task = m.task, !.retries = m.retries]]
    /\ UNCHANGED <<net, exists, store, revoked, nextTask, predictions, redelivered, reported, api>>

\* task_acks_late: the message stays unacknowledged while its task runs, and
\* the broker may hand it to the pool once more
Redeliver(w) ==
    /\ wk[w].pc # "idle"
    /\ redelivered < MaxRedeliveries
    /\ redelivered' = redelivered + 1
    /\ queue' = queue \cup {[task |-> wk[w].task, retries |-> wk[w].retries]}
    /\ UNCHANGED <<net, exists, store, revoked, nextTask, predictions, reported, api, wk>>

\* revoke(terminate=True): the process running a revoked task is killed
Terminate(w) ==
    /\ wk[w].pc # "idle"
    /\ wk[w].task \in revoked
    /\ wk' = [wk EXCEPT ![w] = IdleWorker]
    /\ UNCHANGED <<net, exists, store, queue, revoked, nextTask, predictions, redelivered, reported, api>>

----------------------------------------------------------------------------
(* _generate_media_async *)

\* the worker's session saves its Job object and refreshes it
Save(w, job, pc) ==
    /\ store' = RowAfterUpdate(store, wk[w].job, job)
    /\ wk' = [wk EXCEPT ![w].job = store', ![w].pc = pc]

\* _update_job_progress: job.progress = progress; repository.update(job)
SaveProgress(w, progress, pc) ==
    /\ store' = RowAfterUpdate(store, wk[w].job, [wk[w].job EXCEPT !.progress = progress])
    /\ wk' = [wk EXCEPT ![w].job = store', ![w].pc = pc, ![w].wrote = progress]

\* an exception raised inside the try block
Raise(w, handler, msg) ==
    /\ wk' = [wk EXCEPT ![w].pc = handler, ![w].err = msg]
    /\ UNCHANGED store

\* job = await repository.get_by_id(...); the PENDING check
Load(w) ==
    /\ wk[w].pc = "load"
    /\ wk' = [wk EXCEPT ![w].job = store, ![w].before = store,
                        ![w].pc = IF store.status # PENDING THEN "fatal" ELSE "claim",
                        ![w].err = IF store.status # PENDING
                                   THEN NotPendingMsg(store.status) ELSE NoMsg]
    /\ UNCHANGED <<net, exists, store, queue, revoked, nextTask, predictions, redelivered, reported, api>>

\* job.mark_processing(); repository.update(job)
Claim(w) ==
    /\ wk[w].pc = "claim"
    /\ store' = RowAfterUpdate(store, wk[w].job, mark_processing(wk[w].job))
    /\ wk' = [wk EXCEPT ![w].job = store', ![w].pc = "progress_10",
                        ![w].claimed = TRUE]
    /\ UNCHANGED <<net, exists, queue, revoked, nextTask, predictions, redelivered, reported, api>>

\* ReplicateClient(), StorageClient(), then progress 0.1
Progress10(w) ==
    /\ wk[w].pc = "progress_10"
    /\ \/ Raise(w, "retryable", StorageErrorMsg)
       \/ SaveProgress(w, P(1), "create_prediction")
    /\ UNCHANGED <<net, exists, queue, revoked, nextTask, predictions, redelivered, reported, api>>

\* create_prediction whose prediction id stays on the session's object
CreatePredictionUnsaved(w) ==
    /\ wk[w].pc = "create_prediction"
    /\ \/ /\ predictions' = predictions + 1
          /\ store' = store
          /\ wk' = [wk EXCEPT ![w].job.replicate_prediction_id = predictions + 1,
                              ![w].pc = "progress_20", ![w].dispatched = TRUE]
       \/ /\ Raise(w, "retryable", ApiErrorMsg)
          /\ UNCHANGED predictions
       \/ /\ Raise(w, "fatal", OtherErrorMsg)
          /\ UNCHANGED predictions
    /\ UNCHANGED <<net, exists, queue, revoked, nextTask, redelivered, reported, api>>

\* create_prediction, then the prediction id is saved on the job
CreatePrediction(w) ==
    /\ wk[w].pc = "create_prediction"
    /\ \/ /\ predictions' = predictions + 1
          /\ store' = RowAfterUpdate(store, wk[w].job,
                         [wk[w].job EXCEPT !.replicate_prediction_id = predictions + 1])
          /\ wk' = [wk EXCEPT ![w].job = store', ![w].pc = "progress_20",
                              ![w].dispatched = TRUE]
       \/ /\ Raise(w, "retryable", ApiErrorMsg)
          /\ UNCHANGED predictions
       \/ /\ Raise(w, "fatal", OtherErrorMsg)
          /\ UNCHANGED predictions
    /\ UNCHANGED <<net, exists, queue, revoked, nextTask, redelivered, reported, api>>

\* progress 0.2, then _wait_for_prediction_with_progress starts its clock
Progress20(w) ==
    /\ wk[w].pc = "progress_20"
    /\ store' = RowAfterUpdate(store, wk[w].job, [wk[w].job EXCEPT !.progress = P(2)])
    /\ wk' = [wk EXCEPT ![w].job = store', ![w].pc = "poll", ![w].wrote = P(2),
                        ![w].elapsed = 0, ![w].last_progress_update = P(2)]
    /\ UNCHANGED <<net, exists, queue, revoked, nextTask, predictions, redelivered, reported, api>>

Min(a, b) == IF a < b THEN a ELSE b

\* the interpolation without its min(..., 0.9)
PollProgressUncapped(elapsed) == P(2) + elapsed

\* min(0.2 + (elapsed / max_wait_time) * 0.7, 0.9)
PollProgress(elapsed) == Min(P(2) + elapsed, P(9))

\* the polling loop pushing a progress that is one tenth above the last one
ShouldPushAtLeast(progress, last) == progress >= last + P(1)

\* whether the polling loop pushes the computed progress
ShouldPush(progress, last) == progress > last + P(1)

PollStatuses == {"processing", "succeeded", "failed", "canceled"}

\* a loop condition that lets one more call start at the ceiling
TimedOutLate(elapsed) == elapsed > MaxWaitTicks + SleepTicks

\* the negation of the while condition time.time() - start_time < max_wait_time
TimedOut(elapsed) == elapsed >= MaxWaitTicks

\* one iteration of the while loop of _wait_for_prediction_with_progress,
\* and the check of the prediction it returns
Polling(w, durations) ==
    /\ wk[w].pc = "poll"
    /\ IF TimedOut(wk[w].elapsed)
       THEN Raise(w, "retryable", TimeoutMsg) /\ UNCHANGED reported
       ELSE \/ Raise(w, "retryable", ApiErrorMsg) /\ UNCHANGED reported
            \/ \E d \in durations, status \in PollStatuses :
                 LET elapsed == wk[w].elapsed + d
                     progress == PollProgress(elapsed)
                     push == ShouldPush(progress, wk[w].last_progress_update)
                     job == IF push THEN [wk[w].job EXCEPT !.progress = progress]
                            ELSE wk[w].job
                 IN /\ reported' = IF status = "processing" THEN reported ELSE status
                    /\ store' = RowAfterUpdate(store, wk[w].job, job)
                    /\ wk' = [wk EXCEPT
                         ![w].job = IF push THEN store' ELSE @,
                         ![w].wrote = IF push THEN progress ELSE @,
                         ![w].last_progress_update = IF push THEN progress ELSE @,
                         ![w].elapsed = elapsed + SleepTicks,
                         ![w].pc = CASE status = "processing" -> "poll"
                                     [] status \in {"failed", "canceled"} -> "retryable"
                                     [] OTHER -> "progress_90",
                         ![w].err = IF status \in {"failed", "canceled"}
                                    THEN PredictionFailedMsg(ProviderDetail) ELSE @]
    /\ UNCHANGED <<net, exists, queue, revoked, nextTask, predictions, redelivered, api>>

Poll(w) == Polling(w, PollDurations)

\* get_prediction calls that return when the interpolation is about one
\* tenth above the last pushed value: just below, exactly on it, just above
FineDurations == {P(1) - SleepTicks, P(1), P(1) + 1}

PollFine(w) == Polling(w, FineDurations)

\* progress 0.9 before the download
Progress90(w) ==
    /\ wk[w].pc = "progress_90"
    /\ SaveProgress(w, P(9), "download")
    /\ UNCHANGED <<net, exists, queue, revoked, nextTask, predictions, redelivered, reported, api>>

\* len(media_data) of the downloaded artifact: an empty body, or the 72 bytes
\* of the mock PNG
MediaSizes == {0, 72}

\* the output check, then download_output on the first output URL
Downloading(w, locators) ==
    /\ wk[w].pc = "download"
    /\ \/ Raise(w, "retryable", NoOutputMsg)
       \/ Raise(w, "retryable", ApiErrorMsg)
       \/ \E url \in locators, n \in MediaSizes :
            /\ wk' = [wk EXCEPT ![w].pc = "progress_95", ![w].media_len = n,
                                ![w].output_url = url]
            /\ UNCHANGED store
    /\ UNCHANGED <<net, exists, queue, revoked, nextTask, predictions, redelivered, reported, api>>

\* download_output with progress 0.95 written as the download begins
DownloadAfterCheckpoint(w) ==
    /\ wk[w].pc = "download"
    /\ \/ Raise(w, "retryable", NoOutputMsg)
       \/ Raise(w, "retryable", ApiErrorMsg)
       \/ \E n \in MediaSizes :
            /\ store' = RowAfterUpdate(store, wk[w].job,
                                       [wk[w].job EXCEPT !.progress = P95])
            /\ wk' = [wk EXCEPT ![w].job = store', ![w].pc = "progress_95",
                                ![w].wrote = P95, ![w].media_len = n,
                                ![w].output_url = DefaultLocator]
    /\ UNCHANGED <<net, exists, queue, revoked, nextTask, predictions, redelivered, reported, api>>

Download(w) == Downloading(w, {DefaultLocator})

\* a prediction whose output URL is any locator
DownloadAny(w) == Downloading(w, Locators)

\* progress 0.95 saved together with status COMPLETED
Progress95Completed(w) ==
    /\ wk[w].pc = "progress_95"
    /\ Save(w, [wk[w].job EXCEPT !.progress = P95, !.status = COMPLETED], "upload")
    /\ UNCHANGED <<net, exists, queue, revoked, nextTask, predictions, redelivered, reported, api>>

\* progress 0.95 before the upload
Progress95(w) ==
    /\ wk[w].pc = "progress_95"
    /\ SaveProgress(w, P95, "upload")
    /\ UNCHANGED <<net, exists, queue, revoked, nextTask, predictions, redelivered, reported, api>>

\* upload_file, then mark_completed and the task returns
Upload(w) ==
    /\ wk[w].pc = "upload"
    /\ \/ Raise(w, "retryable", StorageErrorMsg)
       \/ /\ store' = RowAfterUpdate(store, wk[w].job,
                         LET content_type == determine_content_type(wk[w].output_url)
                             stored == upload_file(wk[w].job.id, content_type)
                         IN mark_completed(wk[w].job, stored.public_url,
                                           stored.storage_path, wk[w].media_len,
                                           content_type))
          /\ wk' = [wk EXCEPT ![w] = IdleWorker]
    /\ UNCHANGED <<net, exists, queue, revoked, nextTask, predictions, redelivered, reported, api>>

\* _handle_retryable_error, first save: retry_count += 1 and the message
RetryableCount(w) ==
    /\ wk[w].pc = "retryable"
    /\ Save(w, [wk[w].job EXCEPT !.retry_count = @ + 1, !.error_message = wk[w].err],
            "retryable_ceiling")
    /\ UNCHANGED <<net, exists, queue, revoked, nextTask, predictions, redelivered, reported, api>>

\* Task.retry as autoretry_for calls it: re-enqueue unless the task's own
\* retries are used up
CeleryWillRetry(retries) == retries + 1 <= CELERY_MAX_RETRIES

\* _handle_retryable_error, the ceiling check; then the exception is re-raised
\* and autoretry_for either re-enqueues the task or lets it fail
RetryableCeiling(w) ==
    /\ wk[w].pc = "retryable_ceiling"
    /\ store' = IF wk[w].job.retry_count >= wk[w].job.max_retries
                THEN RowAfterUpdate(store, wk[w].job,
                                    mark_failed(wk[w].job, wk[w].err, FALSE))
                ELSE store
    /\ IF CeleryWillRetry(wk[w].retries)
       THEN /\ queue' = queue \cup {[task |-> wk[w].task, retries |-> wk[w].retries + 1]}
            /\ wk' = [wk EXCEPT ![w] = IdleWorker]
       ELSE /\ queue' = queue
            /\ wk' = [wk EXCEPT ![w].job = store', ![w].pc = "on_failure"]
    /\ UNCHANGED <<net, exists, revoked, nextTask, predictions, redelivered, reported, api>>

\* _handle_fatal_error, then JobProcessingException is raised
FatalError(w) ==
    /\ wk[w].pc = "fatal"
    /\ store' = RowAfterUpdate(store, wk[w].job, mark_failed(wk[w].job, wk[w].err, FALSE))
    /\ wk' = [wk EXCEPT ![w].job = store', ![w].pc = "on_failure",
                        ![w].err = ProcessingFailedMsg(wk[w].err)]
    /\ UNCHANGED <<net, exists, queue, revoked, nextTask, predictions, redelivered, reported, api>>

\* CallbackTask.on_failure -> _mark_job_failed in a session of its own
OnFailure(w) ==
    /\ wk[w].pc = "on_failure"
    /\ store' = RowAfterUpdate(store, store, mark_failed(store, wk[w].err, TRUE))
    /\ wk' = [wk EXCEPT ![w] = IdleWorker]
    /\ UNCHANGED <<net, exists, queue, revoked, nextTask, predictions, redelivered, reported, api>>

----------------------------------------------------------------------------

\* The service with one worker process, every message delivered once
Next ==
    \/ CreateJob
    \/ SetTaskId
    \/ CancelLoad
    \/ CancelCommit
    \/ RetryLoad
    \/ RetryReset
    \/ Pickup("w1")
    \/ Terminate("w1")
    \/ Load("w1")
    \/ Claim("w1")
    \/ Progress10("w1")
    \/ CreatePrediction("w1")
    \/ Progress20("w1")
    \/ Poll("w1")
    \/ Progress90("w1")
    \/ Download("w1")
    \/ Progress95("w1")
    \/ Upload("w1")
    \/ RetryableCount("w1")
    \/ RetryableCeiling("w1")
    \/ FatalError("w1")
    \/ OnFailure("w1")

Spec == Init /\ [][Next]_vars

\* The steps that are bound to happen: a request that has begun is carried
\* through, a queued message is delivered, a running task takes its next step
\* (every call returns or raises), a revoked task is killed.  Whether and when
\* a client sends a create, cancel or retry request is left open.
Scheduled ==
    \/ SetTaskId
    \/ CancelCommit
    \/ RetryReset
    \/ Pickup("w1")
    \/ Terminate("w1")
    \/ Load("w1")
    \/ Claim("w1")
    \/ Progress10("w1")
    \/ CreatePrediction("w1")
    \/ Progress20("w1")
    \/ Poll("w1")
    \/ Progress90("w1")
    \/ Download("w1")
    \/ Progress95("w1")
    \/ Upload("w1")
    \/ RetryableCount("w1")
    \/ RetryableCeiling("w1")
    \/ FatalError("w1")
    \/ OnFailure("w1")

SpecFair == Init /\ [][Next]_vars /\ WF_vars(Scheduled)

\* A created job and a pool of two workers, with the broker's redelivery
NextPool ==
    \/ CreateJob
    \/ SetTaskId
    \/ \E w \in Workers : Redeliver(w)
    \/ \E w \in Workers : Pickup(w)
    \/ \E w \in Workers : Load(w)
    \/ \E w \in Workers : Claim(w)
    \/ \E w \in Workers : Progress10(w)
    \/ \E w \in Workers : CreatePrediction(w)
    \/ \E w \in Workers : Progress20(w)
    \/ \E w \in Workers : Poll(w)
    \/ \E w \in Workers : Progress90(w)
    \/ \E w \in Workers : Download(w)
    \/ \E w \in Workers : Progress95(w)
    \/ \E w \in Workers : Upload(w)
    \/ \E w \in Workers : RetryableCount(w)
    \/ \E w \in Workers : RetryableCeiling(w)
    \/ \E w \in Workers : FatalError(w)
    \/ \E w \in Workers : OnFailure(w)

SpecPool == Init /\ [][NextPool]_vars

\* The pool of two workers in a service whose jobs are created with
\* max_retries 0
NextNoRetries ==
    \/ CreateJobNoRetries
    \/ SetTaskId
    \/ \E w \in Workers : Redeliver(w)
    \/ \E w \in Workers : Pickup(w)
    \/ \E w \in Workers : Load(w)
    \/ \E w \in Workers : Claim(w)
    \/ \E w \in Workers : Progress10(w)
    \/ \E w \in Workers : CreatePrediction(w)
    \/ \E w \in Workers : Progress20(w)
    \/ \E w \in Workers : Poll(w)
    \/ \E w \in Workers : Progress90(w)
    \/ \E w \in Workers : Download(w)
    \/ \E w \in Workers : Progress95(w)
    \/ \E w \in Workers : Upload(w)
    \/ \E w \in Workers : RetryableCount(w)
    \/ \E w \in Workers : RetryableCeiling(w)
    \/ \E w \in Workers : FatalError(w)
    \/ \E w \in Workers : OnFailure(w)

SpecNoRetries == Init /\ [][NextNoRetries]_vars

\* A created job left to the queue and one worker: no cancel, no retry request
NextUnattended ==
    \/ CreateJob
    \/ SetTaskId
    \/ Pickup("w1")
    \/ Load("w1")
    \/ Claim("w1")
    \/ Progress10("w1")
    \/ CreatePrediction("w1")
    \/ Progress20("w1")
    \/ Poll("w1")
    \/ Progress90("w1")
    \/ Download("w1")
    \/ Progress95("w1")
    \/ Upload("w1")
    \/ RetryableCount("w1")
    \/ RetryableCeiling("w1")
    \/ FatalError("w1")
    \/ OnFailure("w1")

SpecUnattended == Init /\ [][NextUnattended]_vars

\* One worker with the JobService API and the broker's redelivery
NextRedelivery ==
    \/ Next
    \/ Redeliver("w1")

SpecRedelivery == Init /\ [][NextRedelivery]_vars

\* Any create request arrives at the empty service; the job it creates may be
\* cancelled
InitCreate ==
    /\ exists = FALSE
    /\ store = NewJob
    /\ queue = {}
    /\ revoked = {}
    /\ nextTask = 0
    /\ predictions = 0
    /\ redelivered = 0
    /\ reported = None
    /\ \E raw \in AllRequests : api = [IdleApi EXCEPT !.request = <<raw>>]
    /\ wk = [w \in Workers |-> IdleWorker]
    /\ net = NoCall

NextCreate ==
    \/ CreateReceived
    \/ SetTaskId
    \/ CancelLoad
    \/ CancelCommit

SpecCreate == InitCreate /\ [][NextCreate]_vars

\* One worker alone, with get_prediction calls timed around the push threshold
NextPolling ==
    \/ CreateJob
    \/ SetTaskId
    \/ Pickup("w1")
    \/ Load("w1")
    \/ Claim("w1")
    \/ Progress10("w1")
    \/ CreatePrediction("w1")
    \/ Progress20("w1")
    \/ PollFine("w1")
    \/ Progress90("w1")
    \/ Download("w1")
    \/ Progress95("w1")
    \/ Upload("w1")
    \/ RetryableCount("w1")
    \/ RetryableCeiling("w1")
    \/ FatalError("w1")
    \/ OnFailure("w1")

SpecPolling == Init /\ [][NextPolling]_vars

\* One worker alone, with predictions that report any output URL
NextArtifact ==
    \/ CreateJob
    \/ SetTaskId
    \/ Pickup("w1")
    \/ Load("w1")
    \/ Claim("w1")
    \/ Progress10("w1")
    \/ CreatePrediction("w1")
    \/ Progress20("w1")
    \/ Poll("w1")
    \/ Progress90("w1")
    \/ DownloadAny("w1")
    \/ Progress95("w1")
    \/ Upload("w1")
    \/ RetryableCount("w1")
    \/ RetryableCeiling("w1")
    \/ FatalError("w1")
    \/ OnFailure("w1")

SpecArtifact == Init /\ [][NextArtifact]_vars

\* One call of the client, whatever the provider answers to its requests
InitClient ==
    /\ exists = FALSE
    /\ store = NewJob
    /\ queue = {}
    /\ revoked = {}
    /\ nextTask = 0
    /\ predictions = 0
    /\ redelivered = 0
    /\ reported = None
    /\ api = IdleApi
    /\ wk = [w \in Workers |-> IdleWorker]
    /\ net \in Calls

NextClient ==
    \/ ClientCreatePrediction
    \/ ClientGetPrediction
    \/ ClientCancelPrediction

SpecClient == InitClient /\ [][NextClient]_vars

----------------------------------------------------------------------------
(* Properties *)

\* no task queued or running and no request in progress
AtRest ==
    /\ queue = {}
    /\ api.pc = "idle"
    /\ \A w \in Workers : wk[w].pc = "idle"

\* the columns an attempt is said to leave alone
SameRecord(a, b) ==
    /\ a.status = b.status
    /\ a.retry_count = b.retry_count
    /\ a.error_message = b.error_message
    /\ a.progress = b.progress
    /\ a.result_url = b.result_url
    /\ a.result_path = b.result_path
    /\ a.file_size = b.file_size
    /\ a.file_type = b.file_type

\* the worker was turned away by the PENDING check of the attempt it runs
Rejected(w) == wk[w].pc \in {"fatal", "on_failure"} /\ wk[w].before.status # PENDING

\* C1: at most one attempt per job is in flight at any time: two workers
\* handed the same job id never both pass the PENDING check and go on to
\* call create_prediction.
C1_SingleAttemptInFlight ==
    \A v, w \in Workers : wk[v].dispatched /\ wk[w].dispatched => v = w

\* C2: an attempt run against a job that is not PENDING leaves the job record
\* as it was: neither its error handler nor its failure callback changes
\* status, retry_count, error_message, progress or the result fields.
C2_RejectedAttemptIsNoOp ==
    [][\A w \in Workers :
         Rejected(w) /\ (FatalError(w) \/ OnFailure(w)) => SameRecord(store', store)]_vars

\* C3: COMPLETED and CANCELLED are terminal: no step changes the status of a
\* job that is COMPLETED or CANCELLED.
C3_CompletedCancelledTerminal ==
    [][exists /\ store.status \in {COMPLETED, CANCELLED}
         => store'.status = store.status]_vars

\* C4: retry_count <= max_retries whenever the job's status is not FAILED.
C4_RetryCountWithinCeiling ==
    exists /\ store.status # FAILED => store.retry_count <= store.max_retries

\* C5: within one attempt the progress values written to the store never
\* decrease, from the claim to the last write of the attempt, and no step of
\* the attempt lowers the progress the store holds.
C5_ProgressNonDecreasing ==
    [][\A w \in Workers :
         wk[w].claimed =>
           /\ IF wk'[w].claimed
              THEN wk'[w].wrote >= wk[w].wrote
              ELSE Upload(w) /\ store'.status = COMPLETED
                     => store'.progress >= wk[w].wrote
           /\ wk'[w] # wk[w] => store'.progress >= store.progress]_vars

\* C5 witness: the polling loop has pushed an interpolated value and the
\* attempt has gone on to write the 0.9 checkpoint
C5_Witness ==
    \E w \in Workers :
        /\ wk[w].pc = "download"
        /\ wk[w].last_progress_update > P(2)
        /\ wk[w].wrote = P(9)

InRange(progress) == 0 <= progress /\ progress <= One

\* progress values a caller may pass to update_job_progress
ProgressInputs == {0 - 1, 0, P(5), One, One + 1}

\* C6: in every reachable state 0.0 <= progress <= 1.0, and no progress that
\* update_job_progress accepts would take the job out of that range.
C6_ProgressInRange ==
    exists =>
        /\ InRange(store.progress)
        /\ \A p \in ProgressInputs :
              LET r == update_job_progress(store, p, None)
              IN r.ok => InRange(r.job.progress)

\* C6 witness: a poll that returned after the maximum wait had passed pushed
\* the capped value
C6_Witness ==
    \E w \in Workers :
        /\ wk[w].pc = "poll"
        /\ wk[w].elapsed > MaxWaitTicks + SleepTicks
        /\ wk[w].last_progress_update = P(9)
        /\ store.progress = P(9)

\* C7: a freshly created job whose prediction the provider accepted and then
\* reported failed is, once its processing has come to rest, FAILED with
\* retry_count 1 and an error_message that contains the provider's detail.
C7_ProviderFailure ==
    exists /\ AtRest /\ reported = "failed" =>
        /\ store.status = FAILED
        /\ store.retry_count = 1
        /\ Contains(store.error_message, ProviderDetail)

\* C8: an attempt that ends with a provider or storage error below the retry
\* ceiling leaves the job retry-eligible: FAILED with retry_count < max_retries.
C8_RetryEligibleBelowCeiling ==
    [][\A w \in Workers :
         RetryableCeiling(w) /\ wk[w].job.retry_count < wk[w].job.max_retries
           => can_retry(store')]_vars

\* C9: when a retryable error brings retry_count to max_retries the job is
\* set to FAILED and the queue schedules no further execution of the task.
C9_NoAutomaticRetryAtCeiling ==
    [][\A w \in Workers :
         RetryableCeiling(w) /\ wk[w].job.retry_count >= wk[w].job.max_retries
           => store'.status = FAILED /\ queue' = queue]_vars

\* the task failed with the JobProcessingException of the catch-all handler
FailedUnclassified(w) ==
    wk[w].pc = "on_failure" /\ Head(wk[w].err) = Head(ProcessingFailedMsg(NoMsg))

\* C10: after an attempt that ended with an unclassified error and the failure
\* callback that follows it, the job is FAILED and retry_count is what it was
\* before the attempt.
C10_FatalErrorKeepsRetryCount ==
    [][\A w \in Workers :
         FailedUnclassified(w) /\ OnFailure(w)
           => store'.status = FAILED /\ store'.retry_count = wk[w].before.retry_count]_vars

\* the result fields of a job are all empty
NoResult(job) ==
    /\ job.result_url = None
    /\ job.result_path = None
    /\ job.file_size = NoSize
    /\ job.file_type = None

\* C11: a successful retry request leaves the job PENDING with progress 0.0,
\* error_message, the result fields, started_at and completed_at cleared, and
\* retry_count and max_retries as they were before the request.
C11_RetryResetsJob ==
    [][RetryReset =>
         /\ store'.status = PENDING
         /\ store'.progress = 0
         /\ store'.error_message = NoMsg
         /\ NoResult(store')
         /\ store'.started_at = None
         /\ store'.completed_at = None
         /\ store'.retry_count = store.retry_count
         /\ store'.max_retries = store.max_retries]_vars

\* C12: a retry request is rejected with a validation error on field 'retry'
\* unless the job is FAILED with retry_count < max_retries; a rejected request
\* leaves the job record and the queue as they were; and no retry request
\* takes a FAILED job with retry_count >= max_retries out of FAILED.
C12_RetryRejected ==
    [][/\ RetryLoad =>
            IF store.status = FAILED /\ store.retry_count < store.max_retries
            THEN api'.pc = "retry_reset" /\ api'.error = None
            ELSE /\ api' = Rejection("retry")
                 /\ store' = store
                 /\ queue' = queue
                 /\ nextTask' = nextTask
       /\ RetryReset /\ store.status = FAILED
            => store.retry_count < store.max_retries]_vars

\* C13: a cancel request on a COMPLETED, FAILED or CANCELLED job is rejected
\* with a validation error on field 'status'; the job record is unchanged and
\* no task is revoked.
C13_CancelRejectedWhenTerminal ==
    [][CancelLoad /\ store.status \in {COMPLETED, FAILED, CANCELLED} =>
         /\ api' = Rejection("status")
         /\ store' = store
         /\ revoked' = revoked]_vars

\* C13 witness: a cancel request on a FAILED job has been rejected
C13_Witness ==
    /\ api = Rejection("status")
    /\ store.status = FAILED
    /\ revoked = {}

\* C14: a cancel request on a PENDING or PROCESSING job succeeds: the stored
\* status becomes CANCELLED, the task recorded in celery_task_id is revoked,
\* and retry_count, prompt and parameters are unchanged.
C14_CancelSucceeds ==
    [][/\ CancelLoad /\ store.status \in {PENDING, PROCESSING}
            => api'.pc = "cancel" /\ api'.error = None
       /\ CancelCommit
            => /\ store'.status = CANCELLED
               /\ store.celery_task_id # 0 => store.celery_task_id \in revoked'
               /\ store'.retry_count = store.retry_count
               /\ store'.prompt = store.prompt
               /\ store'.parameters = store.parameters
               /\ api'.error = None]_vars

\* C14 witness: a job created with parameters was cancelled and its task revoked
C14_Witness ==
    /\ exists /\ api = IdleApi
    /\ store.status = CANCELLED
    /\ store.celery_task_id \in revoked
    /\ store.parameters # NoParameters

\* the prompt has no character other than blanks
Blank(prompt) == \A i \in 1..Len(prompt) : prompt[i] = " "

\* C15: a create request whose prompt is empty after trimming is rejected with
\* a validation error on field 'prompt'; a create request rejected by
\* validation persists no job and enqueues no task.
C15_RejectedCreateLeavesNothing ==
    [][CreateReceived =>
         /\ Blank(Head(api.request).prompt) => api' = Rejection("prompt")
         /\ api'.error # None =>
               /\ ~exists'
               /\ store' = store
               /\ queue' = queue
               /\ nextTask' = nextTask]_vars

\* C15 witness: a request with a blank prompt has been rejected
C15_Witness == api = Rejection("prompt") /\ ~exists /\ queue = {}

\* low <= x <= high for a number x; nan is in no range
Within(x, low, high) ==
    /\ x.kind \in {"int", "float"}
    /\ x.v >= low
    /\ x.v < high \/ (x.v = high /\ ~x.half)

ParamInRange(k, x) ==
    CASE k = "num_inference_steps" -> Within(x, MIN_STEPS, MAX_STEPS)
      [] k = "guidance_scale" -> Within(x, MIN_GUIDANCE, MAX_GUIDANCE)
      [] OTHER -> Within(x, MIN_DIMENSION, MAX_DIMENSION)

ParamField(k) ==
    CASE k = "width" -> "parameters.width"
      [] k = "height" -> "parameters.height"
      [] k = "num_inference_steps" -> "parameters.num_inference_steps"
      [] OTHER -> "parameters.guidance_scale"

\* the request has a prompt and a model the service accepts, and parameters of
\* the types the schema asks for
WellFormed(raw) ==
    /\ SchemaError(raw) = None
    /\ raw.model = <<>> \/ Contains(raw.model, "/")

\* C16: a create request is accepted by parameter validation exactly when
\* every parameter it supplies is in range (width and height in [64, 2048],
\* num_inference_steps in [1, 150], guidance_scale in [0, 20]); otherwise it is
\* rejected with a validation error naming a parameter that is out of range.
C16_ParametersRangeChecked ==
    [][CreateReceived /\ WellFormed(Head(api.request)) =>
         LET parameters == Head(api.request).parameters
             bad == {k \in DOMAIN parameters : ~ParamInRange(k, parameters[k])}
         IN IF bad = {}
            THEN api'.error = None /\ exists'
            ELSE \E k \in bad : api' = Rejection(ParamField(k))]_vars

\* C17: a job becomes COMPLETED only from PROCESSING, and a COMPLETED job has
\* progress 1.0 and completed_at set.
C17_CompletedOnlyFromProcessing ==
    [][/\ exists /\ store'.status = COMPLETED /\ store.status # COMPLETED
            => store.status = PROCESSING
       /\ exists' /\ store'.status = COMPLETED
            => store'.progress = One /\ store'.completed_at # None]_vars

\* C18: result fields are set only on COMPLETED: a job whose result_url,
\* result_path, file_size or file_type is set has status COMPLETED.
C18_ResultOnlyOnCompleted ==
    exists /\ ~NoResult(store) => store.status = COMPLETED

\* C19: failure info is set only on FAILED: a job whose error_message is set
\* has status FAILED.
C19_ErrorOnlyOnFailed ==
    exists /\ store.error_message # NoMsg => store.status = FAILED

\* C20: completed_at is set whenever the job is COMPLETED, FAILED or
\* CANCELLED, and started_at is set whenever the job is PROCESSING.
C20_TimestampsSet ==
    exists =>
        /\ is_terminal_status(store) => store.completed_at # None
        /\ store.status = PROCESSING => store.started_at # None

\* a call of the real client that is over, and the request it ended with
CallOver(call) == net.call = call /\ ~net.mock_mode /\ net.result # "none"
LastOutcome == net.script[net.attempts]

\* C21: create_prediction reports a network error or a 5xx response only after
\* 3 attempts, retries nothing else, reports a 4xx response after the attempt
\* that received it, and returns when an attempt succeeds
C21_CreateRetriesTransient ==
    CallOver("create_prediction") =>
        /\ net.attempts <= CREATE_ATTEMPTS
        /\ \A i \in 1..(net.attempts - 1) :
               net.script[i] \in {"request_error", "status_5xx"}
        /\ (net.result = "returned") = (LastOutcome = "ok")
        /\ LastOutcome \in {"request_error", "status_5xx"}
               => net.attempts = CREATE_ATTEMPTS

\* C22: get_prediction reports a network error only after 5 attempts, retries
\* nothing else, and reports an HTTP error status after the attempt that
\* received it
C22_GetRetriesTransient ==
    CallOver("get_prediction") =>
        /\ net.attempts <= GET_ATTEMPTS
        /\ \A i \in 1..(net.attempts - 1) : net.script[i] = "request_error"
        /\ (net.result = "returned") = (LastOutcome = "ok")
        /\ LastOutcome = "request_error" => net.attempts = GET_ATTEMPTS

\* C23: cancel_prediction returns to its caller whatever the provider answers
\* to the cancel request
C23_CancelBestEffort ==
    (net.call = "cancel_prediction" /\ net.result # "none")
        => net.result = "returned"

\* C24: a job the pipeline marks COMPLETED has a file_size above zero that is
\* the length of the downloaded artifact, and a result_url
C24_CompletedHasArtifact ==
    [][\A w \in Workers :
          (Upload(w) /\ store'.status = COMPLETED /\ store.status # COMPLETED) =>
              /\ store'.file_size > 0
              /\ store'.file_size = wk[w].media_len
              /\ store'.result_url # None]_vars

\* C25: once the job is created, no step of an attempt, cancel request, retry
\* request or failure callback changes its id, prompt, parameters or
\* max_retries
C25_IdentityImmutable ==
    [][exists =>
          /\ store'.id = store.id
          /\ store'.prompt = store.prompt
          /\ store'.parameters = store.parameters
          /\ store'.max_retries = store.max_retries]_vars

\* a retried job has completed: creation, a failed attempt, the retry request
\* and a whole attempt have acted on the row
C25_Witness ==
    /\ exists
    /\ nextTask = 2
    /\ store.status = COMPLETED
    /\ store.retry_count > 0
    /\ store.prompt # NewJob.prompt
    /\ store.parameters # NoParameters

C27_RetriedAttemptRuns ==
    [][\A w \in Workers :
          /\ (/\ RetryableCeiling(w)
              /\ wk[w].job.retry_count < wk[w].job.max_retries
              /\ CeleryWillRetry(wk[w].retries))
                 => store'.status = PENDING
          /\ (/\ Load(w)
              /\ wk[w].retries > 0
              /\ store.retry_count < store.max_retries)
                 => wk'[w].pc = "claim"]_vars

\* C28: from the moment create_prediction has returned in an attempt until the
\* attempt is over, through every poll, later step and error handler, the
\* stored job carries the prediction id the attempt received
C28_PredictionIdStored ==
    \A w \in Workers :
        wk[w].dispatched =>
            /\ wk[w].job.replicate_prediction_id # NewJob.replicate_prediction_id
            /\ store.replicate_prediction_id = wk[w].job.replicate_prediction_id

\* a step after create_prediction has failed and its handler is running
C28_Witness ==
    \E w \in Workers :
        /\ wk[w].dispatched
        /\ wk[w].pc = "retryable_ceiling"
        /\ store.replicate_prediction_id = predictions
        /\ predictions > 0

\* the attempt of worker w writes the progress checkpoint p in this step
Writes(w, p) == wk'[w].wrote = p /\ wk[w].wrote # p

\* C29: progress 0.1 is written only after create_prediction has returned a
\* prediction, and progress 0.95 has been written when download_output is
\* called
C29_CheckpointsAfterMilestones ==
    [][\A w \in Workers :
          /\ Writes(w, P(1)) => wk[w].dispatched
          /\ Download(w) /\ wk'[w].pc = "progress_95" => wk[w].wrote = P95]_vars

\* C29 as amended: progress 0.1 is written before create_prediction is called,
\* and progress 0.95 is written after download_output has returned the
\* artifact and before upload_file is called
C29_CheckpointsAtStageStart ==
    [][\A w \in Workers :
          /\ Writes(w, P(1)) =>
                /\ ~wk[w].dispatched
                /\ wk'[w].pc = "create_prediction"
                /\ store'.progress = P(1)
          /\ Writes(w, P95) =>
                /\ wk[w].pc = "progress_95"
                /\ wk[w].wrote = P(9)
                /\ wk'[w].pc = "upload"
                /\ store'.progress = P95]_vars

\* the artifact is downloaded and progress 0.95 is stored before the upload
C29_Witness ==
    \E w \in Workers :
        /\ wk[w].pc = "upload"
        /\ wk[w].dispatched
        /\ wk[w].media_len \in MediaSizes \ {0}
        /\ wk[w].wrote = P95
        /\ store.progress = P95

\* an iteration of the polling loop of worker w has computed a progress
Polled(w) == wk[w].pc = "poll" /\ wk'[w].elapsed > wk[w].elapsed
Computed(w) == PollProgress(wk'[w].elapsed - SleepTicks)
Pushed(w) == wk'[w].last_progress_update # wk[w].last_progress_update

\* C30: the polling loop writes a progress only when it is at least one tenth
\* above the last pushed value (0.2 at the start), and a computed progress
\* that is at least one tenth above the last pushed value, exactly one tenth
\* included, is written
C30_PushAtLeastTenth ==
    [][\A w \in Workers :
          Polled(w) =>
              /\ Pushed(w) =>
                    wk'[w].last_progress_update
                        >= wk[w].last_progress_update + P(1)
              /\ Computed(w) >= wk[w].last_progress_update + P(1) =>
                    Pushed(w) /\ store'.progress = Computed(w)]_vars

\* C30 as amended: the polling loop writes a progress only when it is more
\* than one tenth above the last pushed value (0.2 at the start); every such
\* progress is written, and a computed progress exactly one tenth above the
\* last pushed value is not
C30_PushAboveTenth ==
    [][\A w \in Workers :
          Polled(w) =>
              /\ Pushed(w) =>
                    /\ wk'[w].last_progress_update
                           > wk[w].last_progress_update + P(1)
                    /\ wk'[w].last_progress_update = Computed(w)
              /\ Computed(w) > wk[w].last_progress_update + P(1) =>
                    Pushed(w) /\ store'.progress = Computed(w)
              /\ Computed(w) = wk[w].last_progress_update + P(1) =>
                    ~Pushed(w) /\ store'.progress = store.progress]_vars

\* after a push, a call has returned with the interpolation exactly one tenth
\* above the pushed value and nothing was written
C30_Witness ==
    \E w \in Workers :
        /\ wk[w].pc = "poll"
        /\ wk[w].last_progress_update > P(2)
        /\ PollProgress(wk[w].elapsed - SleepTicks)
               = wk[w].last_progress_update + P(1)
        /\ store.progress = wk[w].last_progress_update

Extension(url) ==
    LET dots == {i \in DOMAIN url : url[i] = "."}
    IN IF dots = {} THEN <<>>
       ELSE SubSeq(url, (CHOOSE i \in dots : \A j \in dots : j <= i) + 1, Len(url))

\* the content type and the storage key the claim gives to a locator
ExpectedArtifact(url) ==
    LET e == Extension(url)
        is(spellings) == Len(e) = 1 /\ e[1] \in spellings
    IN CASE is({"jpg", "JPG", "jpeg"}) -> [type |-> "image/jpeg", key |-> "uuid4.jpg"]
         [] is({"gif"}) -> [type |-> "image/gif", key |-> "uuid4.gif"]
         [] is({"webp"}) -> [type |-> "image/webp", key |-> "uuid4.webp"]
         [] is({"mp4", "MP4"}) -> [type |-> "video/mp4", key |-> "uuid4.mp4"]
         [] OTHER -> [type |-> "image/png", key |-> "uuid4.png"]

\* C32: the artifact of a completed job has the content type of its
\* locator's extension, whatever the case of the extension, image/png when
\* the extension is none of the listed ones, and is stored under the job id
\* followed by the extension of that content type
C32_ContentTypeFromExtension ==
    [][\A w \in Workers :
          (Upload(w) /\ store'.status = COMPLETED /\ store.status # COMPLETED) =>
              /\ store'.file_type = ExpectedArtifact(wk[w].output_url).type
              /\ store'.result_path = ExpectedArtifact(wk[w].output_url).key]_vars

\* a job whose prediction reported a locator ending in .JPG has completed
C32_Witness ==
    /\ exists
    /\ store.status = COMPLETED
    /\ store.file_type = "image/jpeg"
    /\ store.result_path = "uuid4.jpg"

\* C33: every created job reaches COMPLETED, FAILED or CANCELLED, whatever
\* state it is in: it does not stay PENDING or PROCESSING forever
C33_JobReachesTerminal ==
    (exists /\ ~is_terminal_status(store)) ~> is_terminal_status(store)

\* the step of worker w changes a result field of the stored job
WritesResult(w) ==
    /\ wk'[w] # wk[w]
    /\ \/ store'.result_url # store.result_url
       \/ store'.result_path # store.result_path
       \/ store'.file_size # store.file_size
       \/ store'.file_type # store.file_type

\* C34: an attempt writes COMPLETED and the result fields in one step only,
\* the one after download_output and upload_file have returned; an attempt
\* whose download or upload failed writes neither
C34_CompletedAfterUpload ==
    [][\A w \in Workers :
          /\ (\/ wk'[w] # wk[w] /\ store'.status = COMPLETED /\ store.status # COMPLETED
              \/ WritesResult(w))
                => /\ wk[w].pc = "upload"
                   /\ wk[w].wrote = P95
                   /\ wk[w].output_url # <<>>
                   /\ wk'[w].pc = "idle"
                   /\ store'.status = COMPLETED
          /\ (wk[w].pc \in {"retryable", "retryable_ceiling", "fatal", "on_failure"}
              /\ wk'[w] # wk[w])
                => /\ store'.status = COMPLETED => store.status = COMPLETED
                   /\ ~WritesResult(w)]_vars

\* the upload of a downloaded artifact has failed and the handler has run:
\* the job is not COMPLETED and has no result
C34_Witness ==
    \E w \in Workers :
        /\ wk[w].pc = "retryable_ceiling"
        /\ wk[w].err = StorageErrorMsg
        /\ wk[w].wrote = P95
        /\ store.status = PROCESSING
        /\ store.result_url = None
        /\ store.file_size = NoSize

\* C35: the number of attempts that have called create_prediction for the
\* job and had it accepted never exceeds max_retries + 1
C35_DispatchesBounded ==
    exists => predictions <= store.max_retries + 1

\* the tasks of the job that are queued, scheduled for automatic retry or
\* running; a revoked message is discarded when it is received and a revoked
\* task is killed
Outstanding ==
    Cardinality({m \in queue : m.task \notin revoked})
        + Cardinality({w \in Workers : wk[w].pc # "idle" /\ wk[w].task \notin revoked})

\* C36: at any time at most one task of the job is outstanding (queued,
\* scheduled for automatic retry, or running)
C36_OneOutstandingTask ==
    Outstanding <= 1

\* the columns a worker writes while it runs a task
WorkerColumns == {"status", "progress", "retry_count"}

\* a write of a JobService request
ApiWrite == api' # api /\ store' # store

\* the worker has written the column since the request loaded the job
WrittenSinceLoad(c) == store[c] # api.job[c]

\* C37: a write of an API request never sets status, progress or
\* retry_count back to the value the request loaded when a worker has written
\* the column since, and the save of celery_task_id leaves the three columns
\* as the worker wrote them
C37_WorkerWritesKept ==
    [][ApiWrite =>
         /\ \A c \in WorkerColumns :
                WrittenSinceLoad(c) => store'[c] # api.job[c]
         /\ api.pc \in {"create_task_id", "retry_task_id"} =>
                \A c \in WorkerColumns : store'[c] = store[c]]_vars

\* the worker has claimed the job and written progress when the task id is
\* saved from the object loaded before
C37_Witness ==
    /\ api.pc = "idle" /\ store.celery_task_id # 0
    /\ \E w \in Workers :
         /\ wk[w].claimed /\ wk[w].job.celery_task_id = 0
         /\ wk[w].job.status = PROCESSING /\ wk[w].job.progress > 0
         /\ store.status = PROCESSING /\ store.progress = wk[w].job.progress

\* C38: the stored retry_count of the job never decreases
C38_RetryCountMonotone ==
    [][exists => store'.retry_count >= store.retry_count]_vars

\* a cancel request has committed CANCELLED on the job of the first task
\* and no worker has loaded or claimed the job
CancelledUnloaded ==
    /\ exists /\ api.pc = "idle"
    /\ store.status = CANCELLED /\ store.started_at = None
    /\ store.retry_count = 0 /\ nextTask = 1 /\ predictions = 0
    /\ \A w \in Workers : wk[w].pc \in {"idle", "load"}

\* C39: once a cancel request has committed CANCELLED before any worker
\* loads the job, no prediction is ever created for the job
C39_CancelledNeverDispatched ==
    [](CancelledUnloaded => [](predictions = 0))

====
